---- MODULE Spec2Model ----
(***************************************************************************)
(* State-machine model of the MapView component                            *)
(* (src/src/components/MapView.tsx).                                       *)
(*                                                                         *)
(* The component is a React function component.  Its state hooks are the   *)
(* variables below; an event handler, a timer callback or a promise        *)
(* continuation is one action, and the action includes the re-render and   *)
(* the effect passes that React runs until the state is stable (Settle).   *)
(* Timers of equal delay fire in the order in which they were set, so the  *)
(* 300 ms timers are one FIFO queue and the 100 ms timers another.         *)
(***************************************************************************)
EXTENDS Integers, Sequences, FiniteSets, TLC

\* ---------------------------------------------------------------- bounds
NumPoints == 60     \* points in the fetched marker file
MaxPage == 4        \* cap on the page counter
MaxTimers == 2      \* cap on pending 300 ms timers
MaxBurst == 2       \* scroll events delivered before one re-render
MaxDrawnCount == 104 \* largest child count a cluster icon is built for

\* ------------------------------------------------------ program constants
MARKERS_PER_PAGE == 25
baseSize == 32
maxSize == 48
minCount == 2
maxCount == 100
LEAFLET == "leaflet.js"
MARKERCLUSTER == "leaflet.markercluster.js"
ScriptUrls == {LEAFLET, MARKERCLUSTER}
LEAFLET_CSS == "leaflet.css"
MARKERCLUSTER_CSS == "MarkerCluster.Default.css"
CssUrls == {LEAFLET_CSS, MARKERCLUSTER_CSS}

VARIABLES
  markers,          \* useState<MarkerData[]>: sequence of point ids
  fetchState,       \* the fetch of /data/markers1.json: pending, ok, failed
  scripts,          \* document: script url -> absent, pending, loaded, failed
  docScripts,       \* document.body: src of the script elements loadScript appended
  docLinks,         \* document.head: href of the link elements loadCss appended
  windowL,          \* window.L is defined
  markerClusterGroup, \* typeof window.L.markerClusterGroup === "function"
  loadPc,           \* position of each run of load(): 1 at mount, 2 on markers
  loadMarkers,      \* the markers each run of load() closed over
  loadResult,       \* how each run of load() ended
  delays,           \* pending 100 ms timers, by run of load(), in order
  loading,          \* useState(true)
  mapRef,           \* mapRef.current holds a map
  sizeTimer,        \* the 400 ms invalidateSize timer of mountMap is pending
  resizeListener,   \* mountMap's listener for window resize is attached
  selectedCluster,  \* useState<ClusterData | null>
  visibleMarkers,   \* useState<MarkerData[]>
  page,             \* useState(1)
  hasMore,          \* useState(true)
  showPanel,        \* useState(false)
  loadingMore,      \* useState(false)
  timers,           \* pending 300 ms timers in the order they were set
  scrollListener,   \* handleScroll attached to the current scroll container
  widgetScripts,    \* document.body: the elements with id reddit-widget-script
  lastOp,           \* history: the last operation of the user on the panel
  mounted,          \* the component is mounted
  mapOps,           \* history: the last use of mapRef.current by a callback
  icon              \* a cluster icon request: child count and built icon size

loaderVars == <<markers, fetchState, scripts, docScripts, docLinks, windowL,
                markerClusterGroup, loadPc, loadMarkers, loadResult, delays,
                loading, mapRef, sizeTimer, resizeListener>>
panelVars == <<selectedCluster, visibleMarkers, page, hasMore, showPanel,
               loadingMore, timers, scrollListener, widgetScripts>>
lifeVars == <<mounted, mapOps, icon>>
vars == <<loaderVars, panelVars, lastOp, lifeVars>>

\* ------------------------------------------------------------ the points
\* MarkerData.lat / MarkerData.lon of the point with a given id.  Points 1..3
\* lie on the equator or the prime meridian, the others have both non-zero.
PointLat(m) == IF m \in {1, 3} THEN 0 ELSE m
PointLon(m) == IF m \in {1, 2} THEN 0 ELSE 0 - m

Dataset == [i \in 1..NumPoints |-> i]

Min(a, b) == IF a < b THEN a ELSE b

\* Array.prototype.slice(0, end)
Slice(s, end) == SubSeq(s, 1, Min(end, Len(s)))

Range(s) == {s[i] : i \in 1..Len(s)}

RECURSIVE SumLat(_)
SumLat(s) == IF s = <<>> THEN 0 ELSE PointLat(Head(s)) + SumLat(Tail(s))
RECURSIVE SumLon(_)
SumLon(s) == IF s = <<>> THEN 0 ELSE PointLon(Head(s)) + SumLon(Tail(s))

\* ------------------------------------------------------------ the loader
\* loadScript(src): resolves at once when a script element with that src is
\* in the document, whatever its state; otherwise attaches one and waits.
ScriptPresent(sc, src) == sc[src] # "absent"
Attach(sc, src) == [sc EXCEPT ![src] = "pending"]

\* load() from the second loadScript on, up to its next suspension.
\* added: the src of the script elements appended on the way.
LoadFromCluster(sc) ==
  IF ScriptPresent(sc, MARKERCLUSTER)
    THEN [scripts |-> sc, pc |-> "delay100", added |-> <<>>]
    ELSE [scripts |-> Attach(sc, MARKERCLUSTER), pc |-> "awaitCluster",
          added |-> <<MARKERCLUSTER>>]

\* load() from its start up to its next suspension.
LoadStart(sc) ==
  IF ScriptPresent(sc, LEAFLET)
    THEN LoadFromCluster(sc)
    ELSE [scripts |-> Attach(sc, LEAFLET), pc |-> "awaitLeaflet",
          added |-> <<LEAFLET>>]

\* loadCss without the look-up of an existing link element.
LoadCss_NoCheck(links, href) == Append(links, href)

\* loadCss(href): appends a link element unless one with that href is there.
LoadCss(links, href) ==
  IF \E i \in 1..Len(links) : links[i] = href THEN links ELSE Append(links, href)

\* The two loadCss calls at the start of load().
LoadStyles(links) == LoadCss(LoadCss(links, LEAFLET_CSS), MARKERCLUSTER_CSS)

\* CanMount without the test of the libraries.
CanMount_MarkersOnly(i, fn) == Len(loadMarkers[i]) > 0

\* The libraries and clustering capability mountMap needs, and a non-empty
\* marker list in the closure of this run of load().
CanMount(i, fn) == windowL /\ fn /\ Len(loadMarkers[i]) > 0

\* mountMap builds one marker per point whose lat and lon are both truthy.
MapMarkers == SelectSeq(markers, LAMBDA m : PointLat(m) # 0 /\ PointLon(m) # 0)

Null == [clusterId |-> 0, markers |-> <<>>, lat |-> <<0, 1>>, lon |-> <<0, 1>>]
NoListener == [attached |-> FALSE, hasMore |-> FALSE, loadingMore |-> FALSE]
NoIcon == [count |-> <<0, 0>>, width |-> <<0, 0>>]

\* The state once the first render and its effects have run: the fetch is
\* under way, the first run of load() has attached leaflet.js and waits for
\* it, and the reset effect has set hasMore (initially true) to false.
MountState ==
  /\ markers = <<>>
  /\ fetchState = "pending"
  /\ scripts = LoadStart([s \in ScriptUrls |-> "absent"]).scripts
  /\ docScripts = LoadStart([s \in ScriptUrls |-> "absent"]).added
  /\ docLinks = LoadStyles(<<>>)
  /\ windowL = FALSE
  /\ markerClusterGroup = FALSE
  /\ loadPc = <<LoadStart([s \in ScriptUrls |-> "absent"]).pc, "idle">>
  /\ loadMarkers = <<<<>>, <<>>>>
  /\ loadResult = <<"none", "none">>
  /\ delays = <<>>
  /\ loading = TRUE
  /\ mapRef = FALSE
  /\ sizeTimer = FALSE
  /\ resizeListener = FALSE
  /\ widgetScripts = <<>>
  /\ mounted = TRUE
  /\ mapOps = "none"
  /\ selectedCluster = Null
  /\ visibleMarkers = <<>>
  /\ page = 1
  /\ hasMore = FALSE
  /\ showPanel = FALSE
  /\ loadingMore = FALSE
  /\ timers = <<>>
  /\ scrollListener = NoListener
  /\ lastOp = "mount"

\* The fetch resolves with a marker list: setMarkers, then the library load
\* effect runs again (its cleanup finds no map) and starts a second load().
FetchOk(data) ==
  /\ fetchState = "pending"
  /\ fetchState' = "ok"
  /\ markers' = data
  /\ loading' = TRUE
  /\ LET r == LoadStart(scripts) IN
       /\ scripts' = r.scripts
       /\ docScripts' = docScripts \o r.added
       /\ loadPc' = [loadPc EXCEPT ![2] = r.pc]
       /\ delays' = IF r.pc = "delay100" THEN Append(delays, 2) ELSE delays
  /\ docLinks' = LoadStyles(docLinks)
  /\ loadMarkers' = [loadMarkers EXCEPT ![2] = data]
  /\ UNCHANGED <<windowL, markerClusterGroup, loadResult, mapRef, sizeTimer,
                 resizeListener, panelVars, lastOp, lifeVars>>

\* The fetch rejects: setMarkers is never called.
FetchFail ==
  /\ fetchState = "pending"
  /\ fetchState' = "failed"
  /\ UNCHANGED <<markers, scripts, docScripts, docLinks, windowL,
                 markerClusterGroup, loadPc, loadMarkers, loadResult, delays,
                 loading, mapRef, sizeTimer, resizeListener, panelVars, lastOp,
                 lifeVars>>

\* The end of load(): the mount test, then the finally block.
\* After an unmount the container element is gone: L.map throws before
\* mapRef.current is assigned, the catch block logs it, and setLoading does
\* nothing.  mountMap also sets the 400 ms timer and the resize listener.
Finish(i, fn) ==
  /\ loadPc' = [loadPc EXCEPT ![i] = "done"]
  /\ loadResult' = [loadResult EXCEPT
                      ![i] = IF ~CanMount(i, fn) THEN "notMounted"
                             ELSE IF mounted THEN "mounted" ELSE "caught"]
  /\ mapRef' = (mapRef \/ (CanMount(i, fn) /\ mounted))
  /\ sizeTimer' = (sizeTimer \/ (CanMount(i, fn) /\ mounted))
  /\ resizeListener' = (resizeListener \/ (CanMount(i, fn) /\ mounted))
  /\ loading' = (loading /\ ~mounted)

\* A script finishes loading and runs; script.onload resolves the promise of
\* the run of load() that attached it.  Leaflet defines window.L; the
\* clustering extension extends window.L and so adds markerClusterGroup only
\* when window.L is there at the time it runs.
ScriptLoaded(src) ==
  /\ scripts[src] = "pending"
  /\ LET sc == [scripts EXCEPT ![src] = "loaded"]
         L == (windowL \/ src = LEAFLET)
         fn == IF src = MARKERCLUSTER THEN windowL ELSE markerClusterGroup
         w == {i \in 1..2 : \/ src = LEAFLET /\ loadPc[i] = "awaitLeaflet"
                            \/ src = MARKERCLUSTER /\ loadPc[i] = "awaitCluster"
                            \/ src = MARKERCLUSTER /\ loadPc[i] = "awaitRetry"}
     IN
       /\ windowL' = L
       /\ markerClusterGroup' = fn
       /\ IF \E i \in w : loadPc[i] = "awaitLeaflet"
            THEN LET i == CHOOSE i \in w : TRUE
                     r == LoadFromCluster(sc) IN
                   /\ scripts' = r.scripts
                   /\ docScripts' = docScripts \o r.added
                   /\ loadPc' = [loadPc EXCEPT ![i] = r.pc]
                   /\ delays' = IF r.pc = "delay100" THEN Append(delays, i)
                                                     ELSE delays
                   /\ UNCHANGED <<loadResult, mapRef, loading, sizeTimer,
                                  resizeListener>>
          ELSE IF \E i \in w : loadPc[i] = "awaitCluster"
            THEN LET i == CHOOSE i \in w : TRUE IN
                   /\ scripts' = sc
                   /\ loadPc' = [loadPc EXCEPT ![i] = "delay100"]
                   /\ delays' = Append(delays, i)
                   /\ UNCHANGED <<docScripts, loadResult, mapRef, loading,
                                  sizeTimer, resizeListener>>
          ELSE IF \E i \in w : loadPc[i] = "awaitRetry"
            THEN LET i == CHOOSE i \in w : TRUE IN
                   /\ scripts' = sc
                   /\ Finish(i, fn)
                   /\ UNCHANGED <<docScripts, delays>>
          ELSE /\ scripts' = sc
               /\ UNCHANGED <<docScripts, loadPc, delays, loadResult, mapRef,
                              loading, sizeTimer, resizeListener>>
  /\ UNCHANGED <<markers, fetchState, docLinks, loadMarkers, panelVars, lastOp,
                 lifeVars>>

\* A script fails to load; script.onerror rejects the promise, load() logs
\* the error in its catch block and runs its finally block.
ScriptFailed(src) ==
  /\ scripts[src] = "pending"
  /\ scripts' = [scripts EXCEPT ![src] = "failed"]
  /\ LET w == {i \in 1..2 : \/ src = LEAFLET /\ loadPc[i] = "awaitLeaflet"
                            \/ src = MARKERCLUSTER /\ loadPc[i] = "awaitCluster"
                            \/ src = MARKERCLUSTER /\ loadPc[i] = "awaitRetry"}
     IN IF w # {}
          THEN LET i == CHOOSE i \in w : TRUE IN
                 /\ loadPc' = [loadPc EXCEPT ![i] = "done"]
                 /\ loadResult' = [loadResult EXCEPT ![i] = "caught"]
                 /\ loading' = (loading /\ ~mounted)
          ELSE UNCHANGED <<loadPc, loadResult, loading>>
  /\ UNCHANGED <<markers, fetchState, docScripts, docLinks, windowL,
                 markerClusterGroup, loadMarkers, delays, mapRef, sizeTimer,
                 resizeListener, panelVars, lastOp, lifeVars>>

\* The 100 ms timer of a run of load() fires: the capability check, one more
\* loadScript of the extension when the capability is missing, the mount test.
DelayFires ==
  /\ delays # <<>>
  /\ LET i == Head(delays) IN
       /\ delays' = Tail(delays)
       /\ IF windowL /\ ~markerClusterGroup /\ ~ScriptPresent(scripts, MARKERCLUSTER)
            THEN /\ scripts' = Attach(scripts, MARKERCLUSTER)
                 /\ docScripts' = Append(docScripts, MARKERCLUSTER)
                 /\ loadPc' = [loadPc EXCEPT ![i] = "awaitRetry"]
                 /\ UNCHANGED <<loadResult, mapRef, loading, sizeTimer,
                                resizeListener>>
            ELSE /\ Finish(i, markerClusterGroup)
                 /\ UNCHANGED <<scripts, docScripts>>
  /\ UNCHANGED <<markers, fetchState, docLinks, windowL, markerClusterGroup,
                 loadMarkers, panelVars, lastOp, lifeVars>>

\* --------------------------------------------------- the React state
\* The values of the state hooks one render sees.
State == [selectedCluster |-> selectedCluster, visibleMarkers |-> visibleMarkers,
          page |-> page, hasMore |-> hasMore, showPanel |-> showPanel,
          loadingMore |-> loadingMore]

RevealTimer(sel, pg) == [kind |-> "reveal", selectedCluster |-> sel, page |-> pg]
CloseTimer == [kind |-> "close", selectedCluster |-> Null, page |-> 0]

\* The closure of handleScroll made by the render with state s.
Listener(s) == [attached |-> TRUE, hasMore |-> s.hasMore,
                loadingMore |-> s.loadingMore]

\* The effects that run after the render with state cur has been committed,
\* prev being the state of the render before it and selNew telling whether
\* selectedCluster is a new object.  Every effect reads the values of cur;
\* the state updates they make are batched into the next render (st).
Pass(prev, cur, selNew, tm, lsn) ==
  LET sel == cur.selectedCluster
      \* useEffect(..., [selectedCluster]): reset pagination
      afterReset ==
        IF ~selNew THEN cur
        ELSE IF sel # Null
          THEN [cur EXCEPT !.page = 1,
                           !.visibleMarkers = Slice(sel.markers, MARKERS_PER_PAGE),
                           !.hasMore = (Len(sel.markers) > MARKERS_PER_PAGE)]
          ELSE [cur EXCEPT !.visibleMarkers = <<>>, !.hasMore = FALSE]
      \* useEffect(..., [page, selectedCluster]): load more
      more == (selNew \/ prev.page # cur.page) /\ sel # Null /\ cur.page > 1
      \* useEffect(..., [hasMore, loadingMore]): attach handleScroll
      scrollRuns == prev.hasMore # cur.hasMore \/ prev.loadingMore # cur.loadingMore
      samePanel == prev.selectedCluster # Null /\ sel # Null
  IN [st |-> IF more THEN [afterReset EXCEPT !.loadingMore = TRUE] ELSE afterReset,
      timers |-> IF more THEN Append(tm, RevealTimer(sel, cur.page)) ELSE tm,
      listener |-> IF scrollRuns
                     THEN (IF sel # Null THEN Listener(cur) ELSE NoListener)
                     ELSE (IF samePanel THEN lsn ELSE NoListener)]

\* Render and run the effects until no state update is left.
RECURSIVE Settle(_, _, _, _, _)
Settle(prev, cur, selNew, tm, lsn) ==
  LET p == Pass(prev, cur, selNew, tm, lsn) IN
    IF p.st = cur THEN p ELSE Settle(cur, p.st, FALSE, p.timers, p.listener)

\* document.getElementById('reddit-widget-script') and remove(): the first
\* element with the id is removed.
RemoveById(ws) == IF ws = <<>> THEN ws ELSE Tail(ws)

\* The widget effect without the removal of the existing script element.
WidgetEffect_KeepsOld(ws, vis, old) ==
  LET script == CHOOSE n \in 1..(Len(old) + Len(ws) + 1) :
                  n \notin Range(old) \cup Range(ws)
  IN IF Len(vis) > 0 THEN Append(ws, script) ELSE ws

\* useEffect(..., [visibleMarkers]), run again for a new visibleMarkers array
\* vis: the cleanup of the run before and the body each remove the first
\* element with id reddit-widget-script, then the body appends a new script
\* element when vis is not empty.  Elements are told apart by a serial number;
\* old holds the elements that existed before the handler.
WidgetEffect(ws, vis, old) ==
  LET cleaned == RemoveById(RemoveById(ws))
      script == CHOOSE n \in 1..(Len(old) + Len(ws) + 1) :
                  n \notin Range(old) \cup Range(ws)
  IN IF Len(vis) > 0 THEN Append(cleaned, script) ELSE cleaned

\* An event handler or callback turned the state into cur; visNew tells
\* whether it called setVisibleMarkers.  The widget effect runs after the
\* first render when visNew, and after the second when the reset effect of
\* the first called setVisibleMarkers (selNew); no later render gets a new
\* array.
Commit(cur, selNew, visNew, tm) ==
  LET p == Settle(State, cur, selNew, tm, scrollListener)
      first == IF visNew
                 THEN WidgetEffect(widgetScripts, cur.visibleMarkers, widgetScripts)
                 ELSE widgetScripts
  IN
    /\ Len(p.timers) <= MaxTimers
    /\ widgetScripts' = IF selNew
                          THEN WidgetEffect(first, p.st.visibleMarkers, widgetScripts)
                          ELSE first
    /\ selectedCluster' = p.st.selectedCluster
    /\ visibleMarkers' = p.st.visibleMarkers
    /\ page' = p.st.page
    /\ hasMore' = p.st.hasMore
    /\ showPanel' = p.st.showPanel
    /\ loadingMore' = p.st.loadingMore
    /\ timers' = p.timers
    /\ scrollListener' = p.listener

\* ------------------------------------------------------- the selections
\* marker.on("click"): a single-member selection centred on the point.
PointSelection(m) ==
  [clusterId |-> m, markers |-> <<m>>,
   lat |-> <<PointLat(m), 1>>, lon |-> <<PointLon(m), 1>>]

\* The clusterclick handler without the division by children.length.
ClusterSelection_NoDivide(children) ==
  [clusterId |-> 1000 + 100 * Head(children) + Len(children),
   markers |-> children,
   lat |-> <<SumLat(children), 1>>,
   lon |-> <<SumLon(children), 1>>]

\* markersLayer.on("clusterclick"): the child markers' points and the mean
\* of their coordinates, kept as the pair <<sum, count>>.
ClusterSelection(children) ==
  [clusterId |-> 1000 + 100 * Head(children) + Len(children),
   markers |-> children,
   lat |-> <<SumLat(children), Len(children)>>,
   lon |-> <<SumLon(children), Len(children)>>]

\* The clusters the clustering layer may show: runs of neighbouring markers,
\* one of 30 markers and one of all markers.
ClusterRanges == {<<1, 30>>, <<1, Len(MapMarkers)>>}
Clusters == {SubSeq(MapMarkers, r[1], r[2]) :
               r \in {q \in ClusterRanges : q[1] < q[2] /\ q[2] <= Len(MapMarkers)}}
\* The markers the user clicks directly: one inside both clusters, one
\* outside the smaller cluster.
ClickedMarkers == {MapMarkers[i] : i \in {1, 31} \cap (1..Len(MapMarkers))}

ClickKind == IF selectedCluster = Null THEN "open"
             ELSE IF \E i \in 1..Len(timers) : timers[i].kind = "close"
               THEN "replaceClosing"
             ELSE "replace"

ClickPoint(m) ==
  /\ mapRef
  /\ Commit([State EXCEPT !.selectedCluster = PointSelection(m),
                          !.showPanel = TRUE], TRUE, FALSE, timers)
  /\ lastOp' = ClickKind
  /\ UNCHANGED <<loaderVars, lifeVars>>

ClickCluster(children) ==
  /\ mapRef
  /\ Commit([State EXCEPT !.selectedCluster = ClusterSelection(children),
                          !.showPanel = TRUE], TRUE, FALSE, timers)
  /\ lastOp' = ClickKind
  /\ UNCHANGED <<loaderVars, lifeVars>>

\* k scroll events near the bottom reach the attached handleScroll before the
\* component renders again: each passes the guard of the same closure (the
\* hasMore and loadingMore of the render that attached it) and queues
\* setPage(prevPage => prevPage + 1); the updates are applied in one render.
Scroll(k) ==
  /\ scrollListener.attached
  /\ ~scrollListener.loadingMore /\ scrollListener.hasMore
  /\ page + k <= MaxPage
  /\ Commit([State EXCEPT !.page = page + k], FALSE, FALSE, timers)
  /\ lastOp' = IF k = 1 /\ timers = <<>> THEN "scrollIdle" ELSE "scroll"
  /\ UNCHANGED <<loaderVars, lifeVars>>

\* closePanel, from the close button of the rendered panel.
CloseButton ==
  /\ selectedCluster # Null
  /\ Commit([State EXCEPT !.showPanel = FALSE], FALSE, FALSE,
            Append(timers, CloseTimer))
  /\ lastOp' = "close"
  /\ UNCHANGED <<loaderVars, lifeVars>>

\* closePanel, from a mousedown outside the panel while the listener of the
\* click-outside effect is attached and the panel exists.
ClickOutside ==
  /\ showPanel /\ selectedCluster # Null
  /\ Commit([State EXCEPT !.showPanel = FALSE], FALSE, FALSE,
            Append(timers, CloseTimer))
  /\ lastOp' = "close"
  /\ UNCHANGED <<loaderVars, lifeVars>>

\* The callback of the load-more effect's setTimeout, with the page and the
\* selection of the render that set it.
RevealFires ==
  /\ timers # <<>> /\ Head(timers).kind = "reveal"
  /\ LET t == Head(timers)
         endIndex == t.page * MARKERS_PER_PAGE IN
       Commit([State EXCEPT
                 !.visibleMarkers = Slice(t.selectedCluster.markers, endIndex),
                 !.hasMore = (endIndex < Len(t.selectedCluster.markers)),
                 !.loadingMore = FALSE], FALSE, TRUE, Tail(timers))
  /\ UNCHANGED <<loaderVars, lastOp, lifeVars>>

\* CloseFires without setPage(1).
CloseFires_KeepsPage ==
  /\ timers # <<>> /\ Head(timers).kind = "close"
  /\ Commit([State EXCEPT !.selectedCluster = Null, !.visibleMarkers = <<>>],
            selectedCluster # Null, TRUE, Tail(timers))
  /\ UNCHANGED <<loaderVars, lastOp, lifeVars>>

\* The callback of closePanel's setTimeout.
CloseFires ==
  /\ timers # <<>> /\ Head(timers).kind = "close"
  /\ Commit([State EXCEPT !.selectedCluster = Null, !.visibleMarkers = <<>>,
                          !.page = 1], selectedCluster # Null, TRUE,
            Tail(timers))
  /\ UNCHANGED <<loaderVars, lastOp, lifeVars>>

Init == MountState /\ icon = NoIcon

Next ==
  \/ \E data \in {Dataset, <<>>} : FetchOk(data)
  \/ FetchFail
  \/ \E src \in ScriptUrls : ScriptLoaded(src)
  \/ \E src \in ScriptUrls : ScriptFailed(src)
  \/ DelayFires
  \/ \E m \in ClickedMarkers : ClickPoint(m)
  \/ \E children \in Clusters : ClickCluster(children)
  \/ \E k \in 1..MaxBurst : Scroll(k)
  \/ CloseButton
  \/ ClickOutside
  \/ RevealFires
  \/ CloseFires

Spec == Init /\ [][Next]_vars

\* Every pending timer fires, every pending script load and the fetch end.
Fairness ==
  /\ WF_vars(RevealFires \/ CloseFires)
  /\ WF_vars(DelayFires)
  /\ \A src \in ScriptUrls : WF_vars(ScriptLoaded(src) \/ ScriptFailed(src))
  /\ WF_vars((\E data \in {Dataset, <<>>} : FetchOk(data)) \/ FetchFail)

FairSpec == Spec /\ Fairness

\* ------------------------------------------------- the component's life
\* The component is unmounted: the cleanup of the load effect removes the map
\* and clears mapRef.current, the cleanup of the widget effect removes the
\* widget script, the scroll listener is removed with its effect.  Pending
\* timers, script loads, the fetch and the window's resize listener stay.
Unmount ==
  /\ mounted
  /\ mounted' = FALSE
  /\ mapRef' = FALSE
  /\ widgetScripts' = RemoveById(widgetScripts)
  /\ scrollListener' = NoListener
  /\ UNCHANGED <<markers, fetchState, scripts, docScripts, docLinks, windowL,
                 markerClusterGroup, loadPc, loadMarkers, loadResult, delays,
                 loading, sizeTimer, resizeListener, selectedCluster,
                 visibleMarkers, page, hasMore, showPanel, loadingMore, timers,
                 lastOp, mapOps, icon>>

\* A 300 ms timer fires after the unmount: its state updates do nothing.
TimerDropped ==
  /\ ~mounted
  /\ timers # <<>>
  /\ timers' = Tail(timers)
  /\ UNCHANGED <<loaderVars, selectedCluster, visibleMarkers, page, hasMore,
                 showPanel, loadingMore, scrollListener, widgetScripts, lastOp,
                 lifeVars>>

\* The fetch ends after the unmount: setMarkers does nothing, no effect runs.
FetchDropped ==
  /\ ~mounted
  /\ fetchState = "pending"
  /\ fetchState' \in {"ok", "failed"}
  /\ UNCHANGED <<markers, scripts, docScripts, docLinks, windowL,
                 markerClusterGroup, loadPc, loadMarkers, loadResult, delays,
                 loading, mapRef, sizeTimer, resizeListener, panelVars, lastOp,
                 lifeVars>>

\* mapRef.current.invalidateSize(true), as the timer and the resize listener
\* of mountMap call it: a TypeError when mapRef.current is null.
InvalidateSize == IF mapRef THEN "invalidateSize" ELSE "typeError"

\* The 400 ms timer of mountMap fires.
SizeTimerFires ==
  /\ sizeTimer
  /\ sizeTimer' = FALSE
  /\ mapOps' = InvalidateSize
  /\ UNCHANGED <<markers, fetchState, scripts, docScripts, docLinks, windowL,
                 markerClusterGroup, loadPc, loadMarkers, loadResult, delays,
                 loading, mapRef, resizeListener, panelVars, lastOp, mounted,
                 icon>>

\* The window is resized while the listener of mountMap is attached.
WindowResize ==
  /\ resizeListener
  /\ mapOps' = InvalidateSize
  /\ UNCHANGED <<loaderVars, panelVars, lastOp, mounted, icon>>

LifeNext ==
  \/ mounted /\ \E data \in {Dataset, <<>>} : FetchOk(data)
  \/ mounted /\ FetchFail
  \/ \E src \in ScriptUrls : ScriptLoaded(src)
  \/ \E src \in ScriptUrls : ScriptFailed(src)
  \/ DelayFires
  \/ mounted /\ \E m \in ClickedMarkers : ClickPoint(m)
  \/ mounted /\ \E children \in Clusters : ClickCluster(children)
  \/ mounted /\ \E k \in 1..MaxBurst : Scroll(k)
  \/ mounted /\ CloseButton
  \/ mounted /\ ClickOutside
  \/ mounted /\ RevealFires
  \/ mounted /\ CloseFires
  \/ Unmount
  \/ TimerDropped
  \/ FetchDropped
  \/ SizeTimerFires
  \/ WindowResize

LifeSpec == Init /\ [][LifeNext]_vars

\* ------------------------------------------------------ the cluster icon
Max(a, b) == IF a > b THEN a ELSE b

\* Math.round(x) for x = num / den, den > 0: floor(x + 1/2).
Round(num, den) == (2 * num + den) \div (2 * den)

\* makeClusterIcon with a size that grows by one per child and has no cap.
makeClusterIcon_Uncapped(count) ==
  LET width == Max(baseSize + (count - minCount), baseSize)
  IN [width |-> width, innerWidth |-> Round(width * 8, 10),
      fontSize |-> Max(11, Min(14, Round(width * 35, 100)))]

\* makeClusterIcon(count).  With range = maxSize - baseSize and
\* y = min(sqrt(count - minCount) / sqrt(maxCount - minCount) * range, range),
\* Math.round(baseSize + y) is baseSize + k for the largest k in 0..range
\* with k - 1/2 <= y, which for k >= 1 is
\* (2k - 1)^2 * (maxCount - minCount) <= 4 * range^2 * (count - minCount);
\* no count makes the two sides equal, so floating point rounds the same way.
makeClusterIcon(count) ==
  LET range == maxSize - baseSize
      fits(k) == \/ k = 0
                 \/ (2 * k - 1) * (2 * k - 1) * (maxCount - minCount)
                      <= 4 * range * range * (count - minCount)
      rounded == baseSize + CHOOSE k \in 0..range :
                   fits(k) /\ \A j \in 0..range : fits(j) => j <= k
      width == Max(rounded, baseSize)
  IN [width |-> width, innerWidth |-> Round(width * 8, 10),
      fontSize |-> Max(11, Min(14, Round(width * 35, 100)))]

\* The icons of two clusters are requested, of count[1] <= count[2] children.
IconInit ==
  /\ MountState
  /\ \E c1, c2 \in minCount..MaxDrawnCount :
       /\ c1 <= c2
       /\ icon = [count |-> <<c1, c2>>, width |-> <<0, 0>>]

\* iconCreateFunction: the clustering layer builds the two icons.
BuildIcons ==
  /\ icon.width = <<0, 0>>
  /\ icon' = [icon EXCEPT !.width = <<makeClusterIcon(icon.count[1]).width,
                                      makeClusterIcon(icon.count[2]).width>>]
  /\ UNCHANGED <<loaderVars, panelVars, lastOp, mounted, mapOps>>

IconNext == BuildIcons

IconSpec == IconInit /\ [][IconNext]_vars

\* ------------------------------------------------------------ properties
RevealPending == {i \in 1..Len(timers) : timers[i].kind = "reveal"}
ClosePending == {i \in 1..Len(timers) : timers[i].kind = "close"}
Members == selectedCluster.markers

\* C1: whenever a Selection exists and no reveal or close timer is pending,
\* the revealed count is at most the number of members and hasMore is true
\* exactly when the revealed count is below the number of members.
C1_SettledPagination ==
  (selectedCluster # Null /\ timers = <<>>) =>
     /\ Len(visibleMarkers) <= Len(Members)
     /\ hasMore <=> (Len(visibleMarkers) < Len(Members))

\* C2: after a click that replaced a Selection still present (no close
\* pending at the click), once all timers have fired the revealed count is
\* min(25, number of new members) and page is 1.
C2_ReplaceResetsPagination ==
  (lastOp = "replace" /\ timers = <<>>) =>
     /\ Len(visibleMarkers) = Min(MARKERS_PER_PAGE, Len(Members))
     /\ page = 1

\* C3: a Selection opened after the previous one was torn down never shows a
\* point that is not one of its members.
C3_NoLeakAfterReopen ==
  (lastOp = "open" /\ selectedCluster # Null) =>
     Range(visibleMarkers) \subseteq Range(Members)

\* C4: a step that raises the page number (only scroll events do) raises it
\* by one and leaves at most one reveal timer pending.
C4_OneRevealInFlight ==
  [][page' > page =>
       /\ page' = page + 1
       /\ Cardinality({i \in 1..Len(timers') : timers'[i].kind = "reveal"}) <= 1]_vars

\* C5: the step that attaches the clustering-extension script finds the
\* mapping-library script loaded.
C5_ExtensionAfterLibrary ==
  [][(scripts[MARKERCLUSTER] = "absent" /\ scripts'[MARKERCLUSTER] # "absent")
       => scripts'[LEAFLET] = "loaded"]_vars

\* C6: once both scripts have loaded, the fetch has returned a non-empty list
\* and every run of load() that was started has ended, the map is mounted.
LoadsDone == /\ loadPc[1] = "done"
             /\ loadPc[2] = IF fetchState = "ok" THEN "done" ELSE "idle"
             /\ fetchState # "pending"
C6_MapMountedInTheEnd ==
  (/\ \A src \in ScriptUrls : scripts[src] = "loaded"
   /\ fetchState = "ok" /\ markers # <<>>
   /\ LoadsDone) => mapRef

\* C7: on the mounted map every loaded point has exactly one marker.
C7_OneMarkerPerPoint ==
  mapRef => \A m \in Range(markers) :
              Cardinality({i \in 1..Len(MapMarkers) : MapMarkers[i] = m}) = 1

\* C8: when the reveal timer of a single scroll event, accepted with hasMore
\* true and nothing in flight, fires on the undisturbed Selection, the
\* revealed count advances by one page of 25 clamped to the number of
\* members, and hasMore tells whether members are left.
C8_RevealAdvancesOnePage ==
  [][(lastOp = "scrollIdle" /\ lastOp' = lastOp /\ timers # <<>> /\ timers' = <<>>) =>
       /\ Len(visibleMarkers') =
            Min(Len(visibleMarkers) + MARKERS_PER_PAGE, Len(Members))
       /\ hasMore' <=> (Len(visibleMarkers') < Len(Members))]_vars

\* C9: a close action hides the panel at once and leaves the Selection and
\* the revealed list as they are; the Selection goes, and the revealed list
\* becomes empty, only in the step in which a close timer fires, which also
\* sets page to 1; and every pending close timer leads to that teardown.
CloseActionStep ==
  /\ Len(timers') = Len(timers) + 1
  /\ timers'[Len(timers')].kind = "close"
CloseTimerStep ==
  /\ timers # <<>> /\ Head(timers).kind = "close"
  /\ timers' = Tail(timers)
TornDown == selectedCluster = Null /\ visibleMarkers = <<>> /\ page = 1
C9_CloseThenTeardown ==
  /\ [][CloseActionStep =>
          /\ ~showPanel'
          /\ selectedCluster' = selectedCluster
          /\ visibleMarkers' = visibleMarkers]_vars
  /\ [][((selectedCluster # Null /\ selectedCluster' = Null)
          \/ (visibleMarkers # <<>> /\ visibleMarkers' = <<>>))
          => (CloseTimerStep /\ TornDown')]_vars
  /\ [][CloseTimerStep => TornDown']_vars
  /\ (ClosePending # {}) ~> TornDown
C9_Witness ==
  lastOp = "close" /\ timers = <<>> /\ TornDown /\ ~showPanel /\ mapRef

\* C10 as stated: after a script failure the map is never constructed, the
\* loading flag is false once the loads have ended, and (the markers having
\* arrived) a marker or cluster can still be selected.
ScriptFailure == \E src \in ScriptUrls : scripts[src] = "failed"
C10_PanelUsableAfterFailure ==
  ScriptFailure =>
    /\ ~mapRef
    /\ (LoadsDone /\ fetchState = "ok" /\ markers # <<>>) =>
         /\ ~loading
         /\ ENABLED ((\E m \in ClickedMarkers : ClickPoint(m))
                      \/ (\E children \in Clusters : ClickCluster(children)))

\* C10 amended: a script failure is caught by the run of load() that waits
\* for the script, which resets the loading flag; from then on the map is
\* never constructed, no Selection is ever opened, and the loading flag is
\* false again once every run of load() has ended, which they do.
C10_FailureContained ==
  /\ [][\A src \in ScriptUrls :
          (scripts[src] = "pending" /\ scripts'[src] = "failed") =>
             /\ \E i \in 1..2 : loadResult[i] = "none" /\ loadResult'[i] = "caught"
                                  /\ loadPc'[i] = "done"
             /\ ~loading']_vars
  /\ [](ScriptFailure => (~mapRef /\ selectedCluster = Null /\ ~showPanel))
  /\ [](ScriptFailure /\ LoadsDone => ~loading)
  /\ ScriptFailure ~> LoadsDone
C10_Witness ==
  /\ ScriptFailure /\ LoadsDone /\ fetchState = "ok" /\ markers # <<>>
  /\ \E i \in 1..2 : loadResult[i] = "caught"
  /\ \E i \in 1..2 : loadResult[i] = "notMounted"

Occurrences(seq, x) == Cardinality({i \in 1..Len(seq) : seq[i] = x})

\* C11: whatever loadScript and loadCss calls have been made, the document
\* holds at most one script element per script URL and at most one link
\* element per stylesheet URL (a call for an attached URL adds nothing).
C11_OneElementPerUrl ==
  /\ \A src \in ScriptUrls : Occurrences(docScripts, src) <= 1
  /\ \A href \in CssUrls : Occurrences(docLinks, href) <= 1

\* The second run of load() has called loadCss and loadScript again for URLs
\* that the first run attached.
C11_Witness ==
  /\ loadPc[2] # "idle"
  /\ \A src \in ScriptUrls : Occurrences(docScripts, src) = 1
  /\ \A href \in CssUrls : Occurrences(docLinks, href) = 1


\* The rational mean[1] / mean[2] is the arithmetic mean of the values
\* coord[i]: there are mean[2] of them, each a value divided by mean[2], and
\* their deviations from the mean add up to zero.
IsMean(mean, coord) ==
  LET n == Len(coord)
      dev[i \in 0..n] == IF i = 0 THEN 0
                         ELSE dev[i - 1] + (mean[2] * coord[i] - mean[1])
  IN mean[2] = n /\ dev[n] = 0

\* C12: a click on a cluster yields a Selection whose members are exactly the
\* points of the cluster's child markers and whose centre is the arithmetic
\* mean of the members' latitudes and longitudes.
C12_ClusterClickSelection ==
  [][\A children \in Clusters :
       ClickCluster(children) =>
         /\ selectedCluster'.markers = children
         /\ IsMean(selectedCluster'.lat,
                   [i \in 1..Len(children) |-> PointLat(children[i])])
         /\ IsMean(selectedCluster'.lon,
                   [i \in 1..Len(children) |-> PointLon(children[i])])]_vars

\* A click has just opened the panel on the cluster of 30 markers.
C12_Witness ==
  /\ lastOp \in {"open", "replace", "replaceClosing"}
  /\ showPanel /\ selectedCluster # Null
  /\ Len(selectedCluster.markers) = 30
  /\ selectedCluster.lat[2] = 30


\* C13: for every count from 2 to 100 the diameter makeClusterIcon computes
\* is between 32 and 48 inclusive, and it does not decrease when the count
\* grows.
C13_IconDiameter ==
  (icon.width # <<0, 0>> /\ icon.count[2] <= maxCount) =>
     /\ \A i \in 1..2 : icon.width[i] >= 32 /\ icon.width[i] <= 48
     /\ icon.width[1] <= icon.width[2]

\* The icons of a cluster of 50 and of a cluster of 100 have been built: the
\* first has a diameter strictly inside the range, the second the largest.
C13_Witness ==
  /\ icon.count = <<50, 100>>
  /\ icon.width[1] > 32 /\ icon.width[1] < icon.width[2]
  /\ icon.width[2] = 48


\* C14: once the view is unmounted no operation is performed on the map:
\* no load that completes later constructs a map, and neither the 400 ms
\* timer nor a window resize invokes a method on the cleared map reference.
C14_NoMapUseAfterUnmount ==
  [][~mounted => (~mapRef' /\ mapOps' = mapOps)]_vars


\* C15: a reveal timer that fires after the close teardown changes nothing,
\* so whenever no Selection exists and no timer is pending the revealed list
\* is empty and hasMore is false.
C15_EmptyWithoutSelection ==
  (selectedCluster = Null /\ timers = <<>>) =>
     (visibleMarkers = <<>> /\ ~hasMore)

\* C16: a close timer never discards a Selection that a later click opened,
\* so the panel is never marked shown while the Selection is null.
C16_ShownPanelHasSelection == showPanel => selectedCluster # Null


\* The 100 ms delay of a run of load() ends and the run finds the mapping
\* library present and the clustering capability missing.
RetryStep ==
  /\ delays # <<>> /\ delays' = Tail(delays)
  /\ windowL /\ ~markerClusterGroup

\* C17: when the library is present and the capability is missing after both
\* scripts have resolved, the run makes a further attempt to load the
\* extension script: it attaches the script once more and waits for that
\* load before it decides whether to mount the map.
C17_RetryLoadsExtension ==
  [][RetryStep =>
       /\ Occurrences(docScripts', MARKERCLUSTER)
            = Occurrences(docScripts, MARKERCLUSTER) + 1
       /\ loadPc'[Head(delays)] = "awaitRetry"]_vars

\* The runs of load() for which loadScript(src) has resolved as success.
Resolved(src) ==
  {i \in 1..2 :
     \/ loadResult[i] \in {"mounted", "notMounted"}
     \/ loadPc[i] \in {"delay100", "awaitRetry"}
     \/ src = LEAFLET /\ loadPc[i] = "awaitCluster"}

\* C19: the completion signal of loadScript for a URL resolves only after
\* that script has loaded successfully, also for a call made while an earlier
\* load of the URL is pending or after it has failed.
C19_ResolvedOnlyWhenLoaded ==
  \A src \in ScriptUrls : Resolved(src) # {} => scripts[src] = "loaded"


\* C18: the document holds at most one widget script element at any time and
\* none after the unmount; a step that changes the revealed list leaves one
\* element that did not exist before when the list is non-empty and no
\* element when the list is empty.
C18_OneWidgetScript ==
  /\ [](Len(widgetScripts) <= 1 /\ (~mounted => widgetScripts = <<>>))
  /\ [][visibleMarkers' # visibleMarkers =>
          IF visibleMarkers' # <<>>
            THEN /\ Len(widgetScripts') = 1
                 /\ widgetScripts'[1] \notin Range(widgetScripts)
            ELSE widgetScripts' = <<>>]_vars

\* A second page has been revealed and the script element of the first page
\* has been replaced by another one.
C18_Witness ==
  /\ mounted
  /\ Len(visibleMarkers) > MARKERS_PER_PAGE
  /\ widgetScripts = <<2>>

====
